---- MODULE Spec2Model ----
(***************************************************************************)
(* A model of src/analysis_to_sample.py: the three-stage pipeline run by   *)
(* main (fetch_analysis_sets, get_sequence_files,                          *)
(* rearrange_sequence_files) and the pandas operations it is built from.   *)
(*                                                                         *)
(* A cell of a table is a string, modelled as the sequence of its tokens:  *)
(* the separators "/", "," and " " are tokens of their own, and every      *)
(* maximal run of other characters is one token.  NaN is the one cell that *)
(* is not the tokenisation of a string.  A DataFrame is a record of its    *)
(* set of columns and its sequence of rows, each row a function from the   *)
(* columns to cells.  A call either returns a DataFrame or raises, which   *)
(* is the record [raised |-> <exception>].                                 *)
(***************************************************************************)
EXTENDS Integers, Sequences, FiniteSets, TLC

(* ------------------------------ bounds -------------------------------- *)

\* Links (measurement sets) the analysis-set query may return.
MaxLinks == 2
\* Sequence-file rows the catalog returns over one whole run of main.
MaxFiles == 2
\* Rows of a table handed directly to rearrange_sequence_files.
MaxInputRows == 3

(* ------------------------------ strings ------------------------------- *)

NaN == <<"<NaN>">>

Str(s) == <<s>>

\* ''.
EmptyStr == <<>>

\* The string 'nan', which astype(str) makes of a missing value.
NanStr == <<"nan">>

Min(S) == CHOOSE x \in S : \A y \in S : x <= y

\* The least q >= from with t[q] = "/", or 0: where the group ([^/]+) of a
\* pattern must stop.
RECURSIVE NextSlash(_, _)
NextSlash(t, from) ==
    IF from > Len(t) THEN 0
    ELSE IF t[from] = "/" THEN from
    ELSE NextSlash(t, from + 1)

\* re.search of  /<lit>/([^/]+)/  in t from position p on: the group of the
\* leftmost match, or NaN when there is none (Series.str.extract with
\* expand=False).
RECURSIVE SearchFrom(_, _, _)
SearchFrom(t, lit, p) ==
    IF p + 4 > Len(t) THEN NaN
    ELSE IF /\ t[p] = "/"
            /\ t[p + 1] = lit
            /\ t[p + 2] = "/"
            /\ t[p + 3] # "/"
            /\ NextSlash(t, p + 4) # 0
         THEN SubSeq(t, p + 3, NextSlash(t, p + 4) - 1)
         ELSE SearchFrom(t, lit, p + 1)

str_extract(t, lit) == IF t = NaN THEN NaN ELSE SearchFrom(t, lit, 1)

\* str.split(sep): the pieces of t between the occurrences of the token sep.
RECURSIVE SplitFrom(_, _, _, _)
SplitFrom(t, sep, p, cur) ==
    IF p > Len(t) THEN <<cur>>
    ELSE IF t[p] = sep THEN <<cur>> \o SplitFrom(t, sep, p + 1, <<>>)
    ELSE SplitFrom(t, sep, p + 1, Append(cur, t[p]))

split(t, sep) == SplitFrom(t, sep, 1, <<>>)

\* str.strip(): t without its leading and trailing blanks.
RECURSIVE lstrip(_)
lstrip(t) == IF t # <<>> /\ Head(t) = " " THEN lstrip(Tail(t)) ELSE t

RECURSIVE rstrip(_)
rstrip(t) ==
    IF t # <<>> /\ t[Len(t)] = " " THEN rstrip(SubSeq(t, 1, Len(t) - 1)) ELSE t

strip(t) == rstrip(lstrip(t))

\* The order of the strings that occur in sort keys, ascending as Python
\* compares them; a missing value sorts after every string.
CellOrder ==
    << EmptyStr,
       <<"/", "configuration-files", "/", "IGVFCF0001", "/">>,
       <<"/", "configuration-files", "/", "IGVFCF0001", "/", ",", " ",
         "/", "configuration-files", "/", "IGVFCF0002", "/">>,
       Str("1"), Str("2"), Str("3"),
       Str("FC1"), Str("FC2"),
       Str("IGVFCF0001"),
       Str("IGVFDS0001"), Str("IGVFDS0002"), Str("IGVFDS0003"),
       Str("IGVFDS0004"),
       Str("gRNA"), Str("hash"), NanStr, Str("scRNA") >>

Rank(c) ==
    IF c = NaN THEN Len(CellOrder) + 1
    ELSE IF \E k \in 1..Len(CellOrder) : CellOrder[k] = c
         THEN CHOOSE k \in 1..Len(CellOrder) : CellOrder[k] = c
         ELSE 0

(* ----------------------------- DataFrames ----------------------------- *)

DataFrame(columns, rows) == [columns |-> columns, rows |-> rows]

\* pd.DataFrame(): no columns, no rows.
EmptyDataFrame == DataFrame({}, <<>>)

\* DataFrame.columns.empty: no columns, whatever the rows.
empty_no_columns(df) == df.columns = {}

\* DataFrame.empty: any axis of length 0.
empty(df) == df.columns = {} \/ df.rows = <<>>

KeyError == [raised |-> "KeyError"]
ValueError == [raised |-> "ValueError"]

Raised(r) == "raised" \in DOMAIN r

\* df[col] = value, a scalar: the column is added or overwritten.
setitem(df, col, value) ==
    DataFrame(df.columns \cup {col},
              [k \in 1..Len(df.rows) |->
                  [c \in df.columns \cup {col} |->
                      IF c = col THEN value ELSE df.rows[k][c]]])

\* A row widened to the columns cols, NaN where it has no value.
Reindex(row, cols) ==
    [c \in cols |-> IF c \in DOMAIN row THEN row[c] ELSE NaN]

RECURSIVE ConcatRows(_, _)
ConcatRows(tables, cols) ==
    IF tables = <<>> THEN <<>>
    ELSE [k \in 1..Len(Head(tables).rows) |->
             Reindex(Head(tables).rows[k], cols)]
         \o ConcatRows(Tail(tables), cols)

RECURSIVE Reverse(_)
Reverse(s) == IF s = <<>> THEN <<>> ELSE Append(Reverse(Tail(s)), Head(s))

\* pd.concat(tables[::-1], ignore_index=True): the last table first.
pd_concat_reversed(tables) ==
    IF tables = <<>> THEN ValueError
    ELSE LET cols == UNION {tables[k].columns : k \in 1..Len(tables)}
         IN  DataFrame(cols, ConcatRows(Reverse(tables), cols))

\* pd.concat(tables, ignore_index=True): the union of the columns, the rows
\* in the order of the tables; no tables at all is a ValueError.
pd_concat(tables) ==
    IF tables = <<>> THEN ValueError
    ELSE LET cols == UNION {tables[k].columns : k \in 1..Len(tables)}
         IN  DataFrame(cols, ConcatRows(tables, cols))

\* df[df[col].isin(values)]
isin(df, col, values) ==
    DataFrame(df.columns, SelectSeq(df.rows, LAMBDA r : r[col] \in values))

\* df.rename(columns=m), m a record of the new names of the renamed columns.
rename(df, m) ==
    LET New(c) == IF c \in DOMAIN m THEN m[c] ELSE c
        cols == {New(c) : c \in df.columns}
        Old(c) == CHOOSE o \in df.columns : New(o) = c
    IN  DataFrame(cols,
                  [k \in 1..Len(df.rows) |-> [c \in cols |-> df.rows[k][Old(c)]]])

\* df[cols], cols a list of columns all present in df.
getitem(df, cols) ==
    DataFrame(cols, [k \in 1..Len(df.rows) |-> [c \in cols |-> df.rows[k][c]]])

\* a sorts strictly before b on the columns by, compared in that order.
RECURSIVE Less(_, _, _)
Less(a, b, by) ==
    IF by = <<>> THEN FALSE
    ELSE IF Rank(a[Head(by)]) # Rank(b[Head(by)])
         THEN Rank(a[Head(by)]) < Rank(b[Head(by)])
         ELSE Less(a, b, Tail(by))

\* row put into the sorted rows after every row that does not sort after it.
RECURSIVE Insert(_, _, _)
Insert(sorted, row, by) ==
    IF sorted = <<>> THEN <<row>>
    ELSE IF Less(row, Head(sorted), by) THEN <<row>> \o sorted
    ELSE <<Head(sorted)>> \o Insert(Tail(sorted), row, by)

RECURSIVE SortRows(_, _)
SortRows(rows, by) ==
    IF rows = <<>> THEN <<>>
    ELSE Insert(SortRows(SubSeq(rows, 1, Len(rows) - 1), by), rows[Len(rows)], by)

\* df.sort_values(by): ascending, missing values last, ties in their order.
sort_values(df, by) == DataFrame(df.columns, SortRows(df.rows, by))

Range(s) == {s[k] : k \in 1..Len(s)}

\* Two rows carry the same join key.  pandas matches a missing key value
\* with a missing key value.
KeyEqNullsDiffer(a, b, on) ==
    \A c \in Range(on) : a[c] = b[c] /\ a[c] # NaN

KeyEq(a, b, on) == \A c \in Range(on) : a[c] = b[c]

\* The rows a left row gives: one per right row of its key, or itself with
\* the right side missing.
LeftRows(l, right, cols, on) ==
    LET mates == SelectSeq(right.rows, LAMBDA r : KeyEq(l, r, on))
    IN  IF mates = <<>> THEN <<Reindex(l, cols)>>
        ELSE [k \in 1..Len(mates) |->
                 [c \in cols |-> IF c \in DOMAIN l THEN l[c] ELSE mates[k][c]]]

RECURSIVE LeftJoinRows(_, _, _, _)
LeftJoinRows(lrows, right, cols, on) ==
    IF lrows = <<>> THEN <<>>
    ELSE LeftRows(Head(lrows), right, cols, on)
         \o LeftJoinRows(Tail(lrows), right, cols, on)

\* The right rows no left row matches, the left side missing.
RightOnlyRows(left, right, cols, on) ==
    LET lone == SelectSeq(right.rows,
                          LAMBDA r : \A k \in 1..Len(left.rows) :
                                         ~KeyEq(left.rows[k], r, on))
    IN  [k \in 1..Len(lone) |-> Reindex(lone[k], cols)]

JoinRowsLeft(left, right, cols, on) ==
    LeftJoinRows(left.rows, right, cols, on)

\* The rows of a full outer join, before they are ordered.
JoinRows(left, right, cols, on) ==
    LeftJoinRows(left.rows, right, cols, on)
    \o RightOnlyRows(left, right, cols, on)

\* pd.concat([left, right]) where the merge should be: every row on a row of
\* its own, the other side missing.
pd_concat_for_merge(left, right, on) ==
    LET cols == left.columns \cup right.columns
    IN  DataFrame(cols,
                  SortRows([k \in 1..Len(left.rows) |-> Reindex(left.rows[k], cols)]
                           \o [k \in 1..Len(right.rows) |->
                                  Reindex(right.rows[k], cols)], on))

\* pd.merge(left, right, on=on, how='outer'): the keys in lexicographic
\* order (the documented order of an outer join), the rows of one key in
\* the order of the left rows, then of the right rows.
pd_merge(left, right, on) ==
    LET cols == left.columns \cup right.columns
    IN  DataFrame(cols, SortRows(JoinRows(left, right, cols, on), on))

(* ----------------------- rearrange_sequence_files --------------------- *)

r1_cols ==
    {"Lane", "measurement_sets", "file_modality", "R1_path", "R1_md5sum",
     "Flowcell ID", "Seqspecs"}

r2_cols ==
    {"Lane", "measurement_sets", "file_modality", "R2_path", "R2_md5sum",
     "Flowcell ID", "Seqspecs"}

merge_on == <<"Lane", "measurement_sets", "file_modality", "Flowcell ID", "Seqspecs">>

sort_by == <<"measurement_sets", "Lane", "file_modality", "Flowcell ID">>

final_cols ==
    {"R1_path", "R1_md5sum", "R2_path", "R2_md5sum", "measurement_sets", "Lane",
     "file_modality", "Flowcell ID", "Seqspecs"}

\* Lines 101 to 103 without the replace('nan', ''): a missing value goes
\* through the extraction as the string 'nan'.
process_seqspecs_no_replace(v) ==
    LET s == IF v = NaN THEN NanStr ELSE v
    IN  IF s # EmptyStr THEN str_extract(s, "configuration-files") ELSE s

\* One Seqspecs value through lines 101 to 103: astype(str) makes 'nan' of a
\* missing value, replace makes '' of 'nan', and every value that is not ''
\* is replaced by what the extraction gives for it.
process_seqspecs(v) ==
    LET s == IF v = NaN THEN NanStr ELSE v
        e == IF s = NanStr THEN EmptyStr ELSE s
    IN  IF e # EmptyStr THEN str_extract(e, "configuration-files") ELSE e

normalize(df) ==
    IF "Seqspecs" \in df.columns
    THEN DataFrame(df.columns,
                   [k \in 1..Len(df.rows) |->
                       [df.rows[k] EXCEPT !["Seqspecs"] = process_seqspecs(@)]])
    ELSE df

rearrange_sequence_files(sequence_files) ==
    IF empty(sequence_files) THEN EmptyDataFrame
    ELSE IF "Illumina Read Type" \notin sequence_files.columns THEN KeyError
    ELSE
      LET df == isin(sequence_files, "Illumina Read Type", {Str("R1"), Str("R2")})
          r1_data == rename(isin(df, "Illumina Read Type", {Str("R1")}),
                            [Accession |-> "R1_path", MD5sum |-> "R1_md5sum"])
          r2_data == rename(isin(df, "Illumina Read Type", {Str("R2")}),
                            [Accession |-> "R2_path", MD5sum |-> "R2_md5sum"])
      IN  IF ~(r1_cols \subseteq r1_data.columns /\ r2_cols \subseteq r2_data.columns)
          THEN KeyError
          ELSE LET merged_df == pd_merge(getitem(r1_data, r1_cols),
                                         getitem(r2_data, r2_cols), merge_on)
               IN  getitem(sort_values(normalize(merged_df), sort_by), final_cols)

(* ------------------------------- state -------------------------------- *)

VARIABLES
    pc,              \* where main is
    exit_status,     \* the status the process ended with, once pc = "exit"
    failed_at,       \* the value of pc at which the run failed, "" if it has not
    analysis_sets,   \* the table fetch_analysis_sets returned
    i,               \* the link get_sequence_files is at
    step,            \* 0: its measurement-set query is next; k: its k-th
                     \* auxiliary-set query is next
    all_tables,      \* get_sequence_files' list of tagged tables
    queries,         \* the sequence-file queries issued so far
    nfiles,          \* the sequence-file rows the catalog has returned so far
    sequence_data,   \* what get_sequence_files returned
    sample_file,     \* what rearrange_sequence_files returned
    files,           \* the output files written so far
    stderr,          \* what the run printed to the error stream
    rerun            \* rearrange_sequence_files applied to its own result

vars ==
    <<pc, exit_status, failed_at, analysis_sets, i, step, all_tables, queries,
      nfiles, sequence_data, sample_file, files, stderr, rerun>>

(* ------------------------ the catalog's answers ----------------------- *)

\* fetch_data returns the body of a response as a table once the lines that
\* start with '20' are dropped and the column names stripped; the reports
\* below are those tables.

AccessionNames ==
    <<"IGVFFI0001", "IGVFFI0002", "IGVFFI0003", "IGVFFI0004", "IGVFFI0005",
      "IGVFFI0006", "IGVFFI0007", "IGVFFI0008">>

MD5Names ==
    <<"md5-0001", "md5-0002", "md5-0003", "md5-0004", "md5-0005", "md5-0006",
      "md5-0007", "md5-0008">>

\* '/configuration-files/IGVFCF0001/'
Seqspec1 == <<"/", "configuration-files", "/", "IGVFCF0001", "/">>

\* '/configuration-files/IGVFCF0001/, /configuration-files/IGVFCF0002/'
SeqspecList ==
    <<"/", "configuration-files", "/", "IGVFCF0001", "/", ",", " ",
      "/", "configuration-files", "/", "IGVFCF0002", "/">>

\* 'IGVFCF0001': an accession that is not a path.
SeqspecBare == Str("IGVFCF0001")

ReadTypes == <<Str("R1"), Str("R2"), Str("I1")>>

\* The columns of a sequence-file report; flowcell_id is a field of the
\* measurement-set query alone.
SequenceFileColumns(with_flowcell) ==
    {"ID", "Accession", "Illumina Read Type", "Lane", "MD5sum", "Seqspecs"}
    \cup (IF with_flowcell THEN {"Flowcell ID"} ELSE {})

\* The n-th sequence file of the catalog as a row of a report.
SequenceFileRow(n, read_type, lane, flowcell, seqspecs, with_flowcell) ==
    [c \in SequenceFileColumns(with_flowcell) |->
        CASE c = "ID" -> <<"/", "sequence-files", "/", AccessionNames[n], "/">>
          [] c = "Accession" -> Str(AccessionNames[n])
          [] c = "Illumina Read Type" -> read_type
          [] c = "Lane" -> lane
          [] c = "MD5sum" -> Str(MD5Names[n])
          [] c = "Flowcell ID" -> flowcell
          [] c = "Seqspecs" -> seqspecs]

\* The sequence-file reports the catalog may answer a query with when it
\* has returned nfiles_so_far files already: up to the MaxFiles-th file.
SequenceFileReports(nfiles_so_far, with_flowcell) ==
    UNION { { DataFrame(SequenceFileColumns(with_flowcell),
                        [k \in 1..n |->
                            SequenceFileRow(nfiles_so_far + k, ReadTypes[rt[k]],
                                            Str("1"), Str("FC1"), Seqspec1,
                                            with_flowcell)]) :
              rt \in [1..n -> 1..Len(ReadTypes)] } :
            n \in 0..(MaxFiles - nfiles_so_far) }

MeasurementSetNames == <<"IGVFDS0001", "IGVFDS0002", "IGVFDS0003", "IGVFDS0004">>

AuxPath(name) == <<"/", "auxiliary-sets", "/", name, "/">>

\* What the Auxiliary Sets cell of a measurement set may read: nothing, one
\* path, or two or three paths joined by ', '.
AuxiliarySetCells ==
    { NaN,
      AuxPath("IGVFDS1001"),
      AuxPath("IGVFDS1001") \o <<",", " ">> \o AuxPath("IGVFDS1002"),
      AuxPath("IGVFDS1001") \o <<",", " ">> \o AuxPath("IGVFDS1002")
          \o <<",", " ">> \o AuxPath("IGVFDS1003") }

AnalysisSetName == "IGVFDS0000"

\* The measurement-set reports the catalog may answer the query of
\* fetch_analysis_sets with: up to MaxLinks measurement sets.
MeasurementSetReports ==
    UNION { { DataFrame({"ID", "Auxiliary Sets", "Input For"},
                        [k \in 1..n |->
                            [c \in {"ID", "Auxiliary Sets", "Input For"} |->
                                CASE c = "ID" ->
                                       <<"/", "measurement-sets", "/",
                                         MeasurementSetNames[k], "/">>
                                  [] c = "Auxiliary Sets" -> aux[k]
                                  [] c = "Input For" ->
                                       <<"/", "analysis-sets", "/",
                                         AnalysisSetName, "/">>]]) :
              aux \in [1..n -> AuxiliarySetCells] } :
            n \in 0..MaxLinks }

(* ------------------------- fetch_analysis_sets ------------------------ *)

\* What fetch_analysis_sets makes of the report fetch_data returned.
fetch_analysis_sets(analysis_set, report) ==
    LET tagged == setitem(report, "analysis_set_id", Str(analysis_set))
        df == DataFrame(tagged.columns \cup {"measurement_sets"},
                        [k \in 1..Len(tagged.rows) |->
                            tagged.rows[k] @@
                            ("measurement_sets" :>
                                 str_extract(tagged.rows[k]["ID"], "measurement-sets"))])
    IN  getitem(rename(df, "Auxiliary Sets" :> "associated_auxiliary_sets"),
                {"analysis_set_id", "measurement_sets", "associated_auxiliary_sets"})

(* -------------------------- get_sequence_files ------------------------ *)

\* df['measurement_sets'] = measurement_id without effect: the rows are
\* left without their measurement set.
StampModalityOnly(df, measurement_id, modality) ==
    setitem(setitem(df, "measurement_sets", NaN), "file_modality", Str(modality))

\* df['measurement_sets'] = measurement_id; df['file_modality'] = modality
Stamp(df, measurement_id, modality) ==
    setitem(setitem(df, "measurement_sets", measurement_id),
            "file_modality", Str(modality))

aux_types == <<"gRNA", "hash">>

\* str(row['associated_auxiliary_sets']).strip().split(','), each stripped.
aux_sets(row) ==
    LET pieces == split(strip(row["associated_auxiliary_sets"]), ",")
    IN  [k \in 1..Len(pieces) |-> strip(pieces[k])]

\* zip that runs to the end of the second list, the label of the last
\* label repeated.
zip_longest(a, b) ==
    [k \in 1..Len(b) |-> <<a[Min({k, Len(a)})], b[k]>>]

\* zip(a, b): pairs up to the end of the shorter list.
zip(a, b) == [k \in 1..Min({Len(a), Len(b)}) |-> <<a[k], b[k]>>]

\* The auxiliary-set queries of a link, in order, each the modality label
\* and the listed auxiliary set: none without auxiliary sets, the one set as
\* gRNA, or the labels of aux_types paired with the sets.
aux_queries(row) ==
    IF row["associated_auxiliary_sets"] = NaN THEN <<>>
    ELSE IF Len(aux_sets(row)) = 1 THEN << <<"gRNA", aux_sets(row)[1]>> >>
    ELSE SelectSeq(zip(aux_types, aux_sets(row)), LAMBDA q : q[2] # NaN)

\* aux_set.split('/')[-2] is an IndexError: the split gives one piece.  The
\* cells of AuxiliarySetCells are paths, which split into four.
aux_id_raises(aux_set) == Len(split(aux_set, "/")) < 2

\* aux_set.split('/')[-2]
aux_id(aux_set) ==
    LET parts == split(aux_set, "/") IN parts[Len(parts) - 1]

\* pd.concat(all_tables, ignore_index=True) whatever all_tables holds.
concat_always(tables) == pd_concat(tables)

\* pd.concat(all_tables, ignore_index=True) if all_tables else pd.DataFrame()
concat_or_empty(tables) ==
    IF tables # <<>> THEN pd_concat(tables) ELSE EmptyDataFrame

(* ----------------- the tables handed to the reshaper ------------------- *)

InputSeqspecs == <<NaN, EmptyStr, Seqspec1, SeqspecList, SeqspecBare, NanStr>>

\* scRNA rows carry a flowcell; rows of an auxiliary set carry none.
InputModalities == <<Str("scRNA"), Str("gRNA")>>

NumInputChoices == Len(ReadTypes) * Len(InputSeqspecs) * Len(InputModalities)

\* The n-th row of an input table, of choice c.
InputRow(n, c) ==
    LET read_type == ReadTypes[(c % Len(ReadTypes)) + 1]
        seqspecs == InputSeqspecs[((c \div Len(ReadTypes)) % Len(InputSeqspecs)) + 1]
        modality ==
            InputModalities[(c \div (Len(ReadTypes) * Len(InputSeqspecs))) + 1]
        flowcell == IF modality = Str("scRNA") THEN Str("FC1") ELSE NaN
    IN  SequenceFileRow(n, read_type, Str("1"), flowcell, seqspecs, TRUE)
        @@ ("measurement_sets" :> Str("IGVFDS0001") @@ "file_modality" :> modality)

\* The sequences of n row choices from lo on, in ascending order.
RECURSIVE Ascending(_, _)
Ascending(n, lo) ==
    IF n = 0 THEN {<<>>}
    ELSE UNION { { <<c>> \o rest : rest \in Ascending(n - 1, c) } :
                 c \in lo..(NumInputChoices - 1) }

\* A table get_sequence_files can hand over, of the rows of the choices.
ReshaperInput(choice) ==
    DataFrame(SequenceFileColumns(TRUE) \cup {"measurement_sets", "file_modality"},
              [k \in 1..Len(choice) |-> InputRow(k, choice[k])])

(* ------------------------------ actions ------------------------------- *)

\* The failure is reported and the process ends with status 0.
FailStatusZero(message) ==
    /\ pc' = "exit"
    /\ exit_status' = 0
    /\ failed_at' = pc
    /\ stderr' = message

\* The process ends with status 1: fetch_data calls sys.exit(1), or an
\* exception reaches main's handler.
Fail(message) ==
    /\ pc' = "exit"
    /\ exit_status' = 1
    /\ failed_at' = pc
    /\ stderr' = message

\* main is in fetch_data: at step 1, or at a query of get_sequence_files.
Fetching ==
    \/ pc = "start"
    \/ pc = "enumerate" /\ i <= Len(analysis_sets.rows)

\* requests.get or raise_for_status raises a RequestException.
TransportError ==
    /\ Fetching
    /\ Fail("Error fetching data")
    /\ UNCHANGED <<analysis_sets, i, step, all_tables, queries, nfiles,
                   sequence_data, sample_file, files, rerun>>

\* fetch_data raises anything else: the body does not parse as a table.
ParseError ==
    /\ Fetching
    /\ Fail("Error processing data")
    /\ UNCHANGED <<analysis_sets, i, step, all_tables, queries, nfiles,
                   sequence_data, sample_file, files, rerun>>

\* Step 1 of main.
FetchAnalysisSets ==
    /\ pc = "start"
    /\ \E report \in MeasurementSetReports :
           analysis_sets' = fetch_analysis_sets(AnalysisSetName, report)
    /\ pc' = "save_analysis"
    /\ UNCHANGED <<exit_status, failed_at, i, step, all_tables, queries, nfiles,
                   sequence_data, sample_file, files, stderr, rerun>>

\* analysis_sets.to_csv(args.analysis_set_output), then into
\* get_sequence_files.
SaveAnalysisSets ==
    /\ pc = "save_analysis"
    /\ files' = files \cup {"analysis_set_output"}
    /\ pc' = "enumerate"
    /\ i' = 1
    /\ step' = 0
    /\ all_tables' = <<>>
    /\ UNCHANGED <<exit_status, failed_at, analysis_sets, queries, nfiles,
                   sequence_data, sample_file, stderr, rerun>>

\* The query of a measurement set's or auxiliary set's sequence files, as
\* the run issued it, with the accessions the catalog returned.
Query(link, kind, id, modality, report) ==
    [link |-> link, kind |-> kind, id |-> id, modality |-> modality,
     returned |-> [k \in 1..Len(report.rows) |-> report.rows[k]["Accession"]]]

\* The measurement-set query of link i and the tagging of its rows.
FetchMeasurementSetFiles ==
    /\ pc = "enumerate"
    /\ i <= Len(analysis_sets.rows)
    /\ step = 0
    /\ LET row == analysis_sets.rows[i]
           measurement_id == row["measurement_sets"]
       IN  /\ \E report \in SequenceFileReports(nfiles, TRUE) :
                  /\ all_tables' =
                         Append(all_tables, Stamp(report, measurement_id, "scRNA"))
                  /\ queries' = Append(queries,
                                       Query(i, "measurement-sets", measurement_id,
                                             "scRNA", report))
                  /\ nfiles' = nfiles + Len(report.rows)
           /\ IF aux_queries(row) = <<>>
              THEN i' = i + 1 /\ step' = 0
              ELSE i' = i /\ step' = 1
    /\ UNCHANGED <<pc, exit_status, failed_at, analysis_sets, sequence_data,
                   sample_file, files, stderr, rerun>>

\* The step-th auxiliary-set query of link i and the tagging of its rows.
FetchAuxiliarySetFiles ==
    /\ pc = "enumerate"
    /\ i <= Len(analysis_sets.rows)
    /\ step >= 1
    /\ LET row == analysis_sets.rows[i]
           measurement_id == row["measurement_sets"]
           aux_type == aux_queries(row)[step][1]
           aux_set == aux_queries(row)[step][2]
           id == aux_id(aux_set)
       IN  IF aux_id_raises(aux_set)
           THEN /\ Fail("Error processing data")
                /\ UNCHANGED <<i, step, all_tables, queries, nfiles>>
           ELSE /\ \E report \in SequenceFileReports(nfiles, FALSE) :
                       /\ all_tables' =
                              Append(all_tables,
                                     Stamp(report, measurement_id, aux_type))
                       /\ queries' = Append(queries,
                                            Query(i, "auxiliary-sets", id,
                                                  aux_type, report))
                       /\ nfiles' = nfiles + Len(report.rows)
                /\ IF step < Len(aux_queries(row))
                   THEN i' = i /\ step' = step + 1
                   ELSE i' = i + 1 /\ step' = 0
                /\ UNCHANGED <<pc, exit_status, failed_at, stderr>>
    /\ UNCHANGED <<analysis_sets, sequence_data, sample_file, files, rerun>>

\* The loop of get_sequence_files is over: its return.
ReturnSequenceFiles ==
    /\ pc = "enumerate"
    /\ i > Len(analysis_sets.rows)
    /\ LET result == concat_or_empty(all_tables)
       IN  IF Raised(result)
           THEN Fail("Error processing data") /\ UNCHANGED sequence_data
           ELSE /\ sequence_data' = result
                /\ pc' = "reshape"
                /\ UNCHANGED <<exit_status, failed_at, stderr>>
    /\ UNCHANGED <<analysis_sets, i, step, all_tables, queries, nfiles,
                   sample_file, files, rerun>>

\* Step 3 of main.
Reshape ==
    /\ pc = "reshape"
    /\ LET result == rearrange_sequence_files(sequence_data)
       IN  IF Raised(result)
           THEN Fail("Error processing data") /\ UNCHANGED sample_file
           ELSE /\ sample_file' = result
                /\ pc' = "save_sample"
                /\ UNCHANGED <<exit_status, failed_at, stderr>>
    /\ UNCHANGED <<analysis_sets, i, step, all_tables, queries, nfiles,
                   sequence_data, files, rerun>>

\* sample_file.to_csv(args.per_sample_output), and main returns.
SavePerSample ==
    /\ pc = "save_sample"
    /\ files' = files \cup {"per_sample_output"}
    /\ pc' = "exit"
    /\ exit_status' = 0
    /\ UNCHANGED <<failed_at, analysis_sets, i, step, all_tables, queries, nfiles,
                   sequence_data, sample_file, stderr, rerun>>

Init ==
    /\ pc = "start"
    /\ exit_status = 0
    /\ failed_at = ""
    /\ analysis_sets = EmptyDataFrame
    /\ i = 0
    /\ step = 0
    /\ all_tables = <<>>
    /\ queries = <<>>
    /\ nfiles = 0
    /\ sequence_data = EmptyDataFrame
    /\ sample_file = EmptyDataFrame
    /\ files = {}
    /\ stderr = ""
    /\ rerun = EmptyDataFrame

Next ==
    \/ FetchAnalysisSets
    \/ SaveAnalysisSets
    \/ FetchMeasurementSetFiles
    \/ FetchAuxiliarySetFiles
    \/ ReturnSequenceFiles
    \/ Reshape
    \/ SavePerSample
    \/ TransportError
    \/ ParseError

Spec == Init /\ [][Next]_vars

(* -------------- rearrange_sequence_files on a table of its own -------- *)

\* rearrange_sequence_files applied once more, to the table it returned.
ReRun ==
    /\ pc = "save_sample"
    /\ rerun' = rearrange_sequence_files(sample_file)
    /\ pc' = "rerun"
    /\ UNCHANGED <<exit_status, failed_at, analysis_sets, i, step, all_tables,
                   queries, nfiles, sequence_data, sample_file, files, stderr>>

\* The tables rearrange_sequence_files is given: no table at all, or up to
\* MaxInputRows files under all the columns, the rows in the order of their
\* choices.
InitReshape ==
    /\ pc = "reshape"
    /\ exit_status = 0
    /\ failed_at = ""
    /\ analysis_sets = EmptyDataFrame
    /\ i = 0
    /\ step = 0
    /\ all_tables = <<>>
    /\ queries = <<>>
    /\ nfiles = 0
    /\ \/ sequence_data = EmptyDataFrame
       \/ \E n \in 0..MaxInputRows : \E choice \in Ascending(n, 0) :
              sequence_data = ReshaperInput(choice)
    /\ sample_file = EmptyDataFrame
    /\ files = {}
    /\ stderr = ""
    /\ rerun = EmptyDataFrame

NextReshape == Reshape \/ ReRun

SpecReshape == InitReshape /\ [][NextReshape]_vars

(* ------------------------------ properties ---------------------------- *)

\* rearrange_sequence_files has returned sample_file.
Reshaped ==
    \/ pc \in {"save_sample", "rerun"}
    \/ pc = "exit" /\ failed_at = ""

\* The rows of sequence_data of the given read type.
InputRows(read_type) ==
    {sequence_data.rows[k] :
        k \in {j \in 1..Len(sequence_data.rows) :
                  sequence_data.rows[j]["Illumina Read Type"] = Str(read_type)}}

OutputRows == {sample_file.rows[k] : k \in 1..Len(sample_file.rows)}

\* Two input rows agree on the five columns of the join key.
SameJoinKey(a, b) ==
    /\ a["Lane"] = b["Lane"]
    /\ a["measurement_sets"] = b["measurement_sets"]
    /\ a["file_modality"] = b["file_modality"]
    /\ a["Flowcell ID"] = b["Flowcell ID"]
    /\ a["Seqspecs"] = b["Seqspecs"]

\* The output row o carries the input row a on its side R1 or R2.
Carries(o, side, a) ==
    /\ o[side \o "_path"] = a["Accession"]
    /\ o[side \o "_md5sum"] = a["MD5sum"]
    /\ o["Lane"] = a["Lane"]
    /\ o["measurement_sets"] = a["measurement_sets"]
    /\ o["file_modality"] = a["file_modality"]
    /\ o["Flowcell ID"] = a["Flowcell ID"]

\* The output row o has nothing on its side R1 or R2.
Missing(o, side) == o[side \o "_path"] = NaN /\ o[side \o "_md5sum"] = NaN

\* C1: no R1 or R2 row is dropped by rearrange_sequence_files.  An R1 row
\* and an R2 row of one join key are together in an output row, both path
\* and md5sum pairs populated; an R1 or R2 row without a mate on its key is
\* in an output row whose other side is null.
C1_NoRowDropped ==
    Reshaped =>
        /\ \A a \in InputRows("R1") : \A b \in InputRows("R2") :
               SameJoinKey(a, b) =>
                   \E o \in OutputRows : Carries(o, "R1", a) /\ Carries(o, "R2", b)
        /\ \A a \in InputRows("R1") :
               (\A b \in InputRows("R2") : ~SameJoinKey(a, b)) =>
                   \E o \in OutputRows : Carries(o, "R1", a) /\ Missing(o, "R2")
        /\ \A b \in InputRows("R2") :
               (\A a \in InputRows("R1") : ~SameJoinKey(a, b)) =>
                   \E o \in OutputRows : Carries(o, "R2", b) /\ Missing(o, "R1")

\* A table with a mated pair, an R1 row without a mate and an R2 row
\* without a mate has been reshaped.
C1_Witness ==
    /\ Reshaped
    /\ \E a \in InputRows("R1") : \E b \in InputRows("R2") : SameJoinKey(a, b)
    /\ \E b \in InputRows("R2") : \A a \in InputRows("R1") : ~SameJoinKey(a, b)

\* A table with an R1 row that has no mate has been reshaped.
C1_WitnessLoneR1 ==
    /\ Reshaped
    /\ \E a \in InputRows("R1") : \A b \in InputRows("R2") : ~SameJoinKey(a, b)
    /\ \E o \in OutputRows : Missing(o, "R2")

\* Two output rows read the same on the five key columns.
SameOutputKey(o1, o2) ==
    /\ o1["measurement_sets"] = o2["measurement_sets"]
    /\ o1["Lane"] = o2["Lane"]
    /\ o1["file_modality"] = o2["file_modality"]
    /\ o1["Flowcell ID"] = o2["Flowcell ID"]
    /\ o1["Seqspecs"] = o2["Seqspecs"]

UniquelyKeyed ==
    \A p, q \in 1..Len(sample_file.rows) :
        p # q => ~SameOutputKey(sample_file.rows[p], sample_file.rows[q])

\* C2, as claimed: for every input table the output is uniquely keyed by
\* (measurement_sets, Lane, file_modality, Flowcell ID, Seqspecs) as they
\* read in the output.
C2_UniquelyKeyed == Reshaped => UniquelyKeyed

\* The position of the first '/configuration-files/<segment>/' in v, the
\* segment not empty and without '/', ending before position q.
SegmentAt(v, p, q) ==
    /\ p >= 1
    /\ q <= Len(v)
    /\ q > p + 3
    /\ v[p] = "/"
    /\ v[p + 1] = "configuration-files"
    /\ v[p + 2] = "/"
    /\ v[q] = "/"
    /\ \A k \in (p + 3)..(q - 1) : v[k] # "/"

HasSegment(v) == \E p, q \in 1..Len(v) : SegmentAt(v, p, q)

\* The segment of the leftmost such place.
FirstSegment(v) ==
    LET p == Min({x \in 1..Len(v) : \E q \in 1..Len(v) : SegmentAt(v, x, q)})
        q == CHOOSE y \in 1..Len(v) : SegmentAt(v, p, y)
    IN  SubSeq(v, p + 3, q - 1)

\* What an input Seqspecs value reads after normalisation: '' for a missing
\* value, '' and 'nan'; the segment after '/configuration-files/' where
\* there is one; null for any other string.
ExpectedSeqspecs(v) ==
    IF v \in {NaN, EmptyStr, NanStr} THEN EmptyStr
    ELSE IF HasSegment(v) THEN FirstSegment(v)
    ELSE NaN

ReadRows == InputRows("R1") \cup InputRows("R2")

\* No two R1 rows and no two R2 rows of the input share the join key, and
\* input rows that differ in Seqspecs alone do not normalise alike.
KeyedInput ==
    /\ \A a, b \in ReadRows :
           (a # b /\ a["Illumina Read Type"] = b["Illumina Read Type"])
               => ~SameJoinKey(a, b)
    /\ \A a, b \in ReadRows :
           (/\ a["Lane"] = b["Lane"]
            /\ a["measurement_sets"] = b["measurement_sets"]
            /\ a["file_modality"] = b["file_modality"]
            /\ a["Flowcell ID"] = b["Flowcell ID"]
            /\ ExpectedSeqspecs(a["Seqspecs"]) = ExpectedSeqspecs(b["Seqspecs"]))
               => a["Seqspecs"] = b["Seqspecs"]

\* C2, amended: the output is uniquely keyed by the five columns whenever no
\* two R1 rows and no two R2 rows of the input share the join key and no two
\* input rows differ in Seqspecs alone yet normalise to the same value.
C2_UniquelyKeyedAmended == (Reshaped /\ KeyedInput) => UniquelyKeyed

\* A keyed input with a mated pair and a row of another key has been
\* reshaped into two rows.
C2_Witness ==
    /\ Reshaped
    /\ KeyedInput
    /\ \E a \in InputRows("R1") : \E b \in InputRows("R2") : SameJoinKey(a, b)
    /\ Len(sample_file.rows) = 2

C6_WitnessNoRows ==
    pc = "rerun" /\ sample_file.columns # {} /\ rerun = EmptyDataFrame

\* The input rows an output row was made of.
Sources(o) ==
    {a \in ReadRows : o["R1_path"] = a["Accession"] \/ o["R2_path"] = a["Accession"]}

\* C7, as claimed: the Seqspecs of every output row is a string, never
\* null: '' for a missing or empty input value, and for every other input
\* value the segment between '/configuration-files/' and the next '/'.
C7_SeqspecsNeverNull ==
    Reshaped =>
        \A o \in OutputRows : \A a \in Sources(o) :
            /\ o["Seqspecs"] # NaN
            /\ a["Seqspecs"] \in {NaN, EmptyStr} => o["Seqspecs"] = EmptyStr
            /\ a["Seqspecs"] \notin {NaN, EmptyStr} =>
                   (HasSegment(a["Seqspecs"])
                    /\ o["Seqspecs"] = FirstSegment(a["Seqspecs"]))

\* C7, amended: the Seqspecs of an output row is '' for a missing or empty
\* input value (and for the string 'nan'), the segment between
\* '/configuration-files/' and the next '/' for a value that has one, and
\* null for any other value.
C7_SeqspecsAmended ==
    Reshaped =>
        \A o \in OutputRows : \A a \in Sources(o) :
            o["Seqspecs"] = ExpectedSeqspecs(a["Seqspecs"])

\* Rows of a missing value, of a path and of a string that is no path have
\* been reshaped.
C7_Witness ==
    /\ Reshaped
    /\ \E o \in OutputRows : \E a \in Sources(o) :
           a["Seqspecs"] = NaN /\ o["Seqspecs"] = EmptyStr
    /\ \E o \in OutputRows : \E a \in Sources(o) :
           a["Seqspecs"] = SeqspecList /\ o["Seqspecs"] = Str("IGVFCF0001")
    /\ \E o \in OutputRows : \E a \in Sources(o) :
           a["Seqspecs"] = SeqspecBare /\ o["Seqspecs"] = NaN

\* The number of occurrences of the token tok in t.
Count(t, tok) == Cardinality({k \in 1..Len(t) : t[k] = tok})

\* The auxiliary sets a link lists: one more than the commas of its cell.
Listed(link) ==
    Count(analysis_sets.rows[link]["associated_auxiliary_sets"], ",") + 1

\* The identifier of the k-th auxiliary set a link lists: each path is five
\* tokens, each ', ' two.
ListedId(link, k) ==
    Str(analysis_sets.rows[link]["associated_auxiliary_sets"][7 * (k - 1) + 4])

\* The positions in queries of the auxiliary-set queries of a link.
AuxQueries(link) ==
    {k \in 1..Len(queries) :
        queries[k].link = link /\ queries[k].kind = "auxiliary-sets"}

\* get_sequence_files is through with the link.
Processed(link) ==
    /\ pc \notin {"start", "save_analysis"}
    /\ link \in 1..Len(analysis_sets.rows)
    /\ link < i

\* Every row of the table of query k carries the modality.
Tagged(k, modality) ==
    \A r \in 1..Len(all_tables[k].rows) :
        all_tables[k].rows[r]["file_modality"] = Str(modality)

\* C3: for a link that lists n >= 1 auxiliary sets, get_sequence_files
\* issues min(n, 2) auxiliary-set queries: the first for the first listed
\* set, its files tagged gRNA, the second for the second, its files tagged
\* hash, and none for a set beyond the second.
C3_AuxiliaryQueries ==
    \A link \in 1..Len(analysis_sets.rows) :
        (Processed(link)
         /\ analysis_sets.rows[link]["associated_auxiliary_sets"] # NaN) =>
            LET n == Listed(link)
                qs == AuxQueries(link)
            IN  /\ Cardinality(qs) = Min({n, 2})
                /\ \E k \in qs :
                       /\ queries[k].id = ListedId(link, 1)
                       /\ queries[k].modality = "gRNA"
                       /\ Tagged(k, "gRNA")
                       /\ \A later \in qs : k <= later
                /\ n >= 2 =>
                       \E k \in qs :
                           /\ queries[k].id = ListedId(link, 2)
                           /\ queries[k].modality = "hash"
                           /\ Tagged(k, "hash")
                           /\ \A earlier \in qs : earlier <= k
                /\ n >= 3 => \A k \in qs : queries[k].id # ListedId(link, 3)

\* A run over a link that lists three auxiliary sets has ended well, two
\* auxiliary-set queries and a file of each modality behind it.
C3_Witness ==
    /\ pc = "exit"
    /\ exit_status = 0
    /\ Len(analysis_sets.rows) >= 1
    /\ Listed(1) = 3
    /\ Cardinality(AuxQueries(1)) = 2
    /\ \E k \in AuxQueries(1) :
           queries[k].modality = "hash" /\ all_tables[k].rows # <<>>

\* The run has ended in failure.
Failed == failed_at # ""

\* C4, as claimed: every failure ends the run with a non-zero status, and a
\* run that ends in failure has written neither output file.
C4_NoPartialResult ==
    /\ Failed => (pc = "exit" /\ exit_status # 0)
    /\ (pc = "exit" /\ exit_status # 0) => files = {}

\* C4, amended: every failure ends the run with a non-zero status and
\* without the per-sample output file; the analysis-set output file has been
\* written by then unless the failure was that of the analysis-set query.
C4_NoPerSampleResult ==
    /\ Failed => (pc = "exit" /\ exit_status = 1 /\ stderr # "")
    /\ (pc = "exit" /\ exit_status # 0) =>
           /\ Failed
           /\ "per_sample_output" \notin files
           /\ "analysis_set_output" \in files <=> failed_at # "start"

\* A run has failed at a sequence-file query, the analysis-set file written.
C4_Witness ==
    /\ pc = "exit"
    /\ exit_status = 1
    /\ failed_at = "enumerate"
    /\ queries # <<>>
    /\ files = {"analysis_set_output"}

\* get_sequence_files has returned sequence_data.
Enumerated ==
    \/ pc \in {"reshape", "save_sample"}
    \/ pc = "exit" /\ failed_at \in {"", "reshape"}

\* The accessions the queries returned, in the order of the queries, each
\* with the modality of its query.
RECURSIVE Returned(_)
Returned(qs) ==
    IF qs = <<>> THEN <<>>
    ELSE [k \in 1..Len(Head(qs).returned) |->
             <<Head(qs).returned[k], Str(Head(qs).modality)>>]
         \o Returned(Tail(qs))

\* C5: what get_sequence_files returns is the rows its queries returned, in
\* the order the queries were issued, each tagged as its query; it has as
\* many rows as the queries returned together.
C5_Concatenation ==
    Enumerated =>
        /\ Len(sequence_data.rows) = nfiles
        /\ Len(sequence_data.rows) = Len(Returned(queries))
        /\ \A k \in 1..Len(sequence_data.rows) :
               /\ sequence_data.rows[k]["Accession"] = Returned(queries)[k][1]
               /\ sequence_data.rows[k]["file_modality"] = Returned(queries)[k][2]
        /\ \A k \in 1..Len(queries) : \A j \in 1..Len(queries) :
               (k < j /\ queries[k].link = queries[j].link) =>
                   queries[k].kind = "measurement-sets"
                   \/ (queries[k].modality = "gRNA" /\ queries[j].modality = "hash")

\* get_sequence_files has returned the rows of two queries that each
\* returned a row.
C5_Witness ==
    /\ Enumerated
    /\ Len(sequence_data.rows) >= 2
    /\ \E k, j \in 1..Len(queries) :
           k # j /\ queries[k].returned # <<>> /\ queries[j].returned # <<>>

\* C8, as claimed: when the queries of get_sequence_files return no row at
\* all, it returns the table without columns, and rearrange_sequence_files
\* returns the table without columns of it and raises nothing.
C8_NoRowsNoColumns ==
    (Enumerated /\ nfiles = 0) =>
        /\ sequence_data = EmptyDataFrame
        /\ Reshaped => sample_file = EmptyDataFrame
        /\ ~Failed

\* C8, amended: when the queries of get_sequence_files return no row at
\* all, it returns a table without rows: the table without columns when
\* there is no link, and a table with the columns of the reports when there
\* is one; rearrange_sequence_files returns the table without columns of
\* either and raises nothing.
C8_NoRowsAmended ==
    /\ (Enumerated /\ nfiles = 0) =>
           /\ sequence_data.rows = <<>>
           /\ sequence_data.columns = {} <=> analysis_sets.rows = <<>>
           /\ analysis_sets.rows # <<>> =>
                  sequence_data.columns =
                      SequenceFileColumns(TRUE)
                          \cup {"measurement_sets", "file_modality"}
           /\ Reshaped => sample_file = EmptyDataFrame
           /\ ~Failed
    /\ (Failed /\ nfiles = 0) =>
           (failed_at \in {"start", "enumerate"} /\ i <= Len(analysis_sets.rows))

\* A run over links whose queries returned nothing has been reshaped.
C8_Witness ==
    /\ Reshaped
    /\ nfiles = 0
    /\ analysis_sets.rows # <<>>
    /\ sequence_data.columns # {}
    /\ sample_file = EmptyDataFrame

\* A run without links has been reshaped.
C8_WitnessNoLinks ==
    /\ Reshaped
    /\ analysis_sets.rows = <<>>
    /\ sequence_data = EmptyDataFrame
    /\ sample_file = EmptyDataFrame

\* C9: every row get_sequence_files holds or returns, the rows of
\* auxiliary-set queries too, carries in measurement_sets the measurement
\* set of the link its query was issued for, which is the measurement_sets
\* value of a link of the table of stage 1.
C9_ParentMeasurementSet ==
    /\ \A k \in 1..Len(all_tables) : \A r \in 1..Len(all_tables[k].rows) :
           /\ all_tables[k].rows[r]["measurement_sets"] =
                  Str(MeasurementSetNames[queries[k].link])
           /\ all_tables[k].rows[r]["measurement_sets"] =
                  analysis_sets.rows[queries[k].link]["measurement_sets"]
    /\ Enumerated =>
           \A r \in 1..Len(sequence_data.rows) :
               \E link \in 1..Len(analysis_sets.rows) :
                   sequence_data.rows[r]["measurement_sets"] =
                       analysis_sets.rows[link]["measurement_sets"]

\* get_sequence_files has returned a row of an auxiliary set of the second
\* link.
C9_Witness ==
    /\ Enumerated
    /\ \E r \in 1..Len(sequence_data.rows) :
           /\ sequence_data.rows[r]["file_modality"] = Str("gRNA")
           /\ sequence_data.rows[r]["measurement_sets"] = Str("IGVFDS0002")

\* The rows of sequence_data that came from auxiliary sets.
AuxRows(read_type) ==
    {a \in InputRows(read_type) : a["file_modality"] # Str("scRNA")}

\* C10: the rows of auxiliary sets have no flowcell id, and
\* rearrange_sequence_files matches the missing values of the join key: an
\* R1 row and an R2 row of an auxiliary set that agree on Lane,
\* measurement_sets, file_modality and Seqspecs are in one output row, both
\* sides populated, and in no row with a side missing.
C10_NullKeysMatch ==
    /\ Enumerated =>
           \A r \in 1..Len(sequence_data.rows) :
               sequence_data.rows[r]["file_modality"] # Str("scRNA") =>
                   sequence_data.rows[r]["Flowcell ID"] = NaN
    /\ Reshaped =>
           \A a \in AuxRows("R1") : \A b \in AuxRows("R2") :
               (/\ a["Lane"] = b["Lane"]
                /\ a["measurement_sets"] = b["measurement_sets"]
                /\ a["file_modality"] = b["file_modality"]
                /\ a["Seqspecs"] = b["Seqspecs"]) =>
                   /\ \E o \in OutputRows :
                          /\ o["R1_path"] = a["Accession"]
                          /\ o["R2_path"] = b["Accession"]
                          /\ o["R1_md5sum"] = a["MD5sum"]
                          /\ o["R2_md5sum"] = b["MD5sum"]
                          /\ o["Flowcell ID"] = NaN
                   /\ \A o \in OutputRows :
                          (o["R1_path"] = a["Accession"]
                           \/ o["R2_path"] = b["Accession"])
                              => (o["R1_path"] # NaN /\ o["R2_path"] # NaN)

\* The R1 and the R2 file of an auxiliary set have been reshaped.
C10_Witness ==
    /\ Reshaped
    /\ \E a \in AuxRows("R1") : \E b \in AuxRows("R2") :
           a["file_modality"] = b["file_modality"]
    /\ Len(sample_file.rows) = 1

====
